---- MODULE Spec2Model ----
(***************************************************************************)
(* Read side of the instance (tenant) queries of internal/query/instance.go *)
(* Every exported method of Queries is one action.  The store driver, the   *)
(* statement serialiser and the request context are collaborators: what     *)
(* they hand back is drawn from small sets.                                  *)
(***************************************************************************)
EXTENDS Integers, Sequences, FiniteSets, TLC

VARIABLES op, args, ret, executed, cursor, reachedEnd

vars == <<op, args, ret, executed, cursor, reachedEnd>>

(* ---------------------------- bounds ---------------------------------- *)
MaxHostLen == 3
MaxQueries == 1

(* ---------------------------- strings --------------------------------- *)
Chars == {"a", "b", ":"}

SeqsUpTo(S, n) == UNION {[1..k -> S] : k \in 0..n}

Hosts == SeqsUpTo(Chars, MaxHostLen)

RECURSIVE IndexOfColon(_, _)
IndexOfColon(s, i) ==
    IF i > Len(s) THEN 0
    ELSE IF s[i] = ":" THEN i
    ELSE IndexOfColon(s, i + 1)

RECURSIVE LastIndexOfColon(_, _)
LastIndexOfColon(s, i) ==
    IF i < 1 THEN 0
    ELSE IF s[i] = ":" THEN i
    ELSE LastIndexOfColon(s, i - 1)

\* a slip: cut at the last colon instead of the first one
SplitHostLast(host) ==
    LET i == LastIndexOfColon(host, Len(host))
    IN IF i = 0 THEN host ELSE SubSeq(host, 1, i - 1)

\* strings.Split(host, ":")[0]
SplitHost(host) ==
    LET i == IndexOfColon(host, 1)
    IN IF i = 0 THEN host ELSE SubSeq(host, 1, i - 1)

(* ---------------------------- language tags --------------------------- *)
Und == "und"

\* language.Make: the empty string has no subtags and yields language.Und
Make(lang) == IF lang = "" THEN Und ELSE lang

(* ---------------------------- read tables ----------------------------- *)
NewRow(id, seq, org, lang, started, done) ==
    [id |-> id, creation_date |-> seq, change_date |-> seq + 1,
     sequence |-> seq, global_org_id |-> org, iam_project_id |-> "p" \o id,
     console_client_id |-> "c" \o id, console_app_id |-> "a" \o id,
     setup_started |-> started, setup_done |-> done,
     default_language |-> lang]

instanceTable ==
    << NewRow("i1", 10, "o1", "en", 2, 2),
       NewRow("i2", 20, "o2", "",   3, 1),
       NewRow("i3", 30, "o3", "de", 1, 0) >>

InstanceIDs == {"i1", "i2", "i3", "i9"}

instanceDomainsTable ==
    { [instance_id |-> "i1", domain |-> <<"a">>],
      [instance_id |-> "i2", domain |-> <<"a", "b">>],
      [instance_id |-> "i3", domain |-> <<"b">>] }

(* ---------------------------- entities -------------------------------- *)
\* new(Instance): every field holds its zero value
ZeroInstance ==
    [ID |-> "", ChangeDate |-> 0, CreationDate |-> 0, Sequence |-> 0,
     GlobalOrgID |-> "", IAMProjectID |-> "", ConsoleID |-> "",
     ConsoleAppID |-> "", DefaultLanguage |-> Und, SetupStarted |-> 0,
     SetupDone |-> 0, Host |-> <<>>]

\* the destinations of row.Scan / rows.Scan, the language column excepted
ScanColumns(instance, row) ==
    [instance EXCEPT !.ID = row.id,
                     !.CreationDate = row.creation_date,
                     !.ChangeDate = row.change_date,
                     !.Sequence = row.sequence,
                     !.GlobalOrgID = row.global_org_id,
                     !.IAMProjectID = row.iam_project_id,
                     !.ConsoleID = row.console_client_id,
                     !.ConsoleAppID = row.console_app_id,
                     !.SetupStarted = row.setup_started,
                     !.SetupDone = row.setup_done]

(* ---------------------------- errors ---------------------------------- *)
NoErr == "nil"
ErrNoRows == "sql.ErrNoRows"
DriverErrs == {"context.Canceled", "context.DeadlineExceeded", "driver.ErrBadConn", "sql.ScanConversion"}
AbortingErrs == {"context.Canceled", "context.DeadlineExceeded", "driver.ErrBadConn"}

Result(e, i, is, l) ==
    [err |-> e, instance |-> i, instances |-> is, lang |-> l]

NoResult == Result(NoErr, <<>>, <<>>, "")

(* ---------------------------- collaborators --------------------------- *)
\* (*sql.Row).Scan after QueryRowContext: an aborted statement reports its
\* own error, an empty result reports sql.ErrNoRows, a row that does not
\* fit the destinations reports a conversion error
RowScanErr(rows, storeErr) ==
    IF storeErr \in AbortingErrs THEN storeErr
    ELSE IF rows = <<>> THEN ErrNoRows
    ELSE IF storeErr # NoErr THEN storeErr
    ELSE NoErr

Outcome(r, n, c, e) == [ret |-> r, executed |-> n, cursor |-> c, reachedEnd |-> e]

(* ---------------------------- single-row scans ------------------------ *)
\* a slip: every scan failure is reported as NotFound
prepareInstanceQueryAllNotFound(host, scanErr, rows) ==
    IF scanErr # NoErr
    THEN Result("NotFound", <<>>, <<>>, "")
    ELSE Result(NoErr,
                << [ScanColumns([ZeroInstance EXCEPT !.Host = host], rows[1])
                      EXCEPT !.DefaultLanguage = Make(rows[1].default_language)] >>,
                <<>>, "")

\* the scan closure returned by prepareInstanceQuery(host)
prepareInstanceQuery(host, scanErr, rows) ==
    IF scanErr # NoErr
    THEN IF scanErr = ErrNoRows
         THEN Result("NotFound", <<>>, <<>>, "")
         ELSE Result("Internal", <<>>, <<>>, "")
    ELSE Result(NoErr,
                << [ScanColumns([ZeroInstance EXCEPT !.Host = host], rows[1])
                      EXCEPT !.DefaultLanguage = Make(rows[1].default_language)] >>,
                <<>>, "")

\* the scan closure returned by prepareInstanceDomainQuery(host)
prepareInstanceDomainQuery(host, scanErr, rows) ==
    IF scanErr # NoErr
    THEN IF scanErr = ErrNoRows
         THEN Result("NotFound", <<>>, <<>>, "")
         ELSE Result("Internal", <<>>, <<>>, "")
    ELSE Result(NoErr,
                << [ScanColumns([ZeroInstance EXCEPT !.Host = host], rows[1])
                      EXCEPT !.DefaultLanguage = Make(rows[1].default_language)] >>,
                <<>>, "")

(* ---------------------------- multi-row scan -------------------------- *)
NoFault == [kind |-> "none", at |-> 0]

\* for rows.Next() { ... rows.Scan(...) ... }: i rows have been delivered
RECURSIVE ScanLoop(_, _, _, _, _)
ScanLoop(rows, fault, i, acc, cnt) ==
    IF fault.kind = "iter" /\ fault.at = i
    THEN [err |-> NoErr, instances |-> acc, count |-> cnt, end |-> FALSE]
    ELSE IF i = Len(rows)
    THEN [err |-> NoErr, instances |-> acc, count |-> cnt, end |-> TRUE]
    ELSE IF fault.kind = "decode" /\ fault.at = i + 1
    THEN [err |-> "sql.ScanConversion", instances |-> <<>>, count |-> 0, end |-> FALSE]
    ELSE ScanLoop(rows, fault, i + 1,
                  Append(acc, ScanColumns(ZeroInstance, rows[i + 1])),
                  Len(rows))

\* a slip: the error of rows.Close() is dropped
prepareInstancesQueryIgnoreClose(rows, fault, closeFails) ==
    LET l == ScanLoop(rows, fault, 0, <<>>, 0)
    IN IF l.err # NoErr
       THEN Outcome(Result(l.err, <<>>, <<>>, ""), 1, "open", FALSE)
       ELSE Outcome(Result(NoErr, <<>>,
                           << [Instances |-> l.instances, Count |-> l.count] >>, ""),
                    1, "closed", l.end)

\* a slip: an empty collection is reported like an empty single-row lookup
prepareInstancesQueryEmptyNotFound(rows, fault, closeFails) ==
    LET l == ScanLoop(rows, fault, 0, <<>>, 0)
    IN IF l.err # NoErr
       THEN Outcome(Result(l.err, <<>>, <<>>, ""), 1, "open", FALSE)
       ELSE IF closeFails
       THEN Outcome(Result("Internal", <<>>, <<>>, ""), 1, "closed", l.end)
       ELSE IF l.instances = <<>>
       THEN Outcome(Result("NotFound", <<>>, <<>>, ""), 1, "closed", l.end)
       ELSE Outcome(Result(NoErr, <<>>,
                           << [Instances |-> l.instances, Count |-> l.count] >>, ""),
                    1, "closed", l.end)

\* the scan closure returned by prepareInstancesQuery()
prepareInstancesQuery(rows, fault, closeFails) ==
    LET l == ScanLoop(rows, fault, 0, <<>>, 0)
    IN IF l.err # NoErr
       THEN Outcome(Result(l.err, <<>>, <<>>, ""), 1, "open", FALSE)
       ELSE IF closeFails
       THEN Outcome(Result("Internal", <<>>, <<>>, ""), 1, "closed", l.end)
       ELSE Outcome(Result(NoErr, <<>>,
                           << [Instances |-> l.instances, Count |-> l.count] >>, ""),
                    1, "closed", l.end)

(* ---------------------------- statements ------------------------------ *)
\* NewInstanceIDsListSearchQuery(ids...): InstanceColumnID IN ids
RECURSIVE toQuery(_, _)
toQuery(queries, rows) ==
    IF queries = <<>> THEN rows
    ELSE toQuery(Tail(queries),
                 SelectSeq(rows, LAMBDA r : r.id \in Head(queries)))

\* WHERE instances.id = <id of the context's instance>
WhereID(id) == SelectSeq(instanceTable, LAMBDA r : r.id = id)

\* LEFT JOIN instance_domains ... WHERE instance_domains.domain = <domain>
WhereDomain(domain) ==
    SelectSeq(instanceTable,
              LAMBDA r : [instance_id |-> r.id, domain |-> domain]
                            \in instanceDomainsTable)

(* ---------------------------- operations ------------------------------ *)
SearchInstances(a) ==
    IF ~a.stmtOk
    THEN Outcome(Result("InvalidArgument", <<>>, <<>>, ""), 0, "none", FALSE)
    ELSE IF a.queryErr # NoErr
    THEN Outcome(Result("Internal", <<>>, <<>>, ""), 1, "none", FALSE)
    ELSE prepareInstancesQuery(toQuery(a.queries, instanceTable), a.fault, a.closeFails)

\* a slip: the statement is run before its serialisation error is looked at
InstanceRunFirst(a) ==
    LET rows == WhereID(a.ctxID)
        r == prepareInstanceQuery(a.ctxHost, RowScanErr(rows, a.storeErr), rows)
    IN IF ~a.stmtOk
       THEN Outcome(Result("Internal", <<>>, <<>>, ""), 1, "none", FALSE)
       ELSE Outcome(r, 1, "none", FALSE)

Instance(a) ==
    IF ~a.stmtOk
    THEN Outcome(Result("Internal", <<>>, <<>>, ""), 0, "none", FALSE)
    ELSE LET rows == WhereID(a.ctxID)
         IN Outcome(prepareInstanceQuery(a.ctxHost, RowScanErr(rows, a.storeErr), rows),
                    1, "none", FALSE)

InstanceByHost(a) ==
    IF ~a.stmtOk
    THEN Outcome(Result("Internal", <<>>, <<>>, ""), 0, "none", FALSE)
    ELSE LET rows == WhereDomain(SplitHost(a.host))
         IN Outcome(prepareInstanceDomainQuery(a.host, RowScanErr(rows, a.storeErr), rows),
                    1, "none", FALSE)

\* a slip: the language of the instance is read although the lookup failed
GetDefaultLanguageNoCheck(a) ==
    LET o == Instance(a)
    IN [o EXCEPT !.ret = Result(NoErr, <<>>, <<>>,
                                IF o.ret.instance = <<>> THEN ""
                                ELSE o.ret.instance[1].DefaultLanguage)]

GetDefaultLanguage(a) ==
    LET o == Instance(a)
    IN IF o.ret.err # NoErr
       THEN [o EXCEPT !.ret = Result(NoErr, <<>>, <<>>, Und)]
       ELSE [o EXCEPT !.ret = Result(NoErr, <<>>, <<>>, o.ret.instance[1].DefaultLanguage)]

(* ---------------------------- inputs ---------------------------------- *)
IDLists == (SUBSET InstanceIDs) \ {{}}

FaultAts == 0..Len(instanceTable)

Faults == {NoFault} \cup [kind : {"iter", "decode"}, at : FaultAts]

NoArgs ==
    [stmtOk |-> TRUE, ctxID |-> "", ctxHost |-> <<>>, host |-> <<>>,
     queries |-> <<>>, storeErr |-> NoErr, queryErr |-> NoErr,
     fault |-> NoFault, closeFails |-> FALSE]

(* ---------------------------- state machine --------------------------- *)
\* one behaviour is one call (op = "none" before it): no operation keeps
\* state for the next one
Init ==
    /\ op = "none"
    /\ args = NoArgs
    /\ ret = NoResult
    /\ executed = 0
    /\ cursor = "none"
    /\ reachedEnd = FALSE

CallSearchInstances ==
    \E ok \in BOOLEAN, qs \in SeqsUpTo(IDLists, MaxQueries),
       qe \in {NoErr} \cup AbortingErrs, f \in Faults, cf \in BOOLEAN :
        LET a == [NoArgs EXCEPT !.stmtOk = ok, !.queries = qs, !.queryErr = qe,
                                !.fault = f, !.closeFails = cf]
        IN /\ op = "none"
           /\ op' = "SearchInstances"
           /\ args' = a
           /\ ret' = SearchInstances(a).ret
           /\ executed' = SearchInstances(a).executed
           /\ cursor' = SearchInstances(a).cursor
           /\ reachedEnd' = SearchInstances(a).reachedEnd

CallInstance ==
    \E ok \in BOOLEAN, id \in InstanceIDs, h \in Hosts,
       se \in {NoErr} \cup DriverErrs :
        LET a == [NoArgs EXCEPT !.stmtOk = ok, !.ctxID = id, !.ctxHost = h,
                                !.storeErr = se]
        IN /\ op = "none"
           /\ op' = "Instance"
           /\ args' = a
           /\ ret' = Instance(a).ret
           /\ executed' = Instance(a).executed
           /\ cursor' = Instance(a).cursor
           /\ reachedEnd' = Instance(a).reachedEnd

CallInstanceByHost ==
    \E ok \in BOOLEAN, h \in Hosts, se \in {NoErr} \cup DriverErrs :
        LET a == [NoArgs EXCEPT !.stmtOk = ok, !.host = h, !.storeErr = se]
        IN /\ op = "none"
           /\ op' = "InstanceByHost"
           /\ args' = a
           /\ ret' = InstanceByHost(a).ret
           /\ executed' = InstanceByHost(a).executed
           /\ cursor' = InstanceByHost(a).cursor
           /\ reachedEnd' = InstanceByHost(a).reachedEnd

CallGetDefaultLanguage ==
    \E ok \in BOOLEAN, id \in InstanceIDs, h \in Hosts,
       se \in {NoErr} \cup DriverErrs :
        LET a == [NoArgs EXCEPT !.stmtOk = ok, !.ctxID = id, !.ctxHost = h,
                                !.storeErr = se]
        IN /\ op = "none"
           /\ op' = "GetDefaultLanguage"
           /\ args' = a
           /\ ret' = GetDefaultLanguage(a).ret
           /\ executed' = GetDefaultLanguage(a).executed
           /\ cursor' = GetDefaultLanguage(a).cursor
           /\ reachedEnd' = GetDefaultLanguage(a).reachedEnd

Next ==
    \/ CallSearchInstances
    \/ CallInstance
    \/ CallInstanceByHost
    \/ CallGetDefaultLanguage

Spec == Init /\ [][Next]_vars

(* ---------------------------- what the store holds for a call --------- *)
Matched ==
    IF op = "SearchInstances" THEN toQuery(args.queries, instanceTable)
    ELSE IF op = "InstanceByHost" THEN WhereDomain(SplitHost(args.host))
    ELSE WhereID(args.ctxID)

SingleRowOps == {"Instance", "InstanceByHost"}

ContextErrs == {"context.Canceled", "context.DeadlineExceeded"}

\* the statement of a single-row lookup ran to its end and matched nothing
ZeroRowsReported == args.storeErr \notin AbortingErrs /\ Matched = <<>>

\* the lookup read or decoded a row and that failed
ReadFailed ==
    \/ args.storeErr \in AbortingErrs
    \/ args.storeErr # NoErr /\ Matched # <<>>

\* the multi-row scan got as far as the cursor
Scanned == op = "SearchInstances" /\ args.stmtOk /\ args.queryErr = NoErr

DecodeFailed ==
    /\ args.fault.kind = "decode"
    /\ args.fault.at \in 1..Len(Matched)

IterationFailed ==
    /\ args.fault.kind = "iter"
    /\ args.fault.at \in 0..Len(Matched)

(* ---------------------------- C1 -------------------------------------- *)
\* C1: a single-row lookup (Instance, InstanceByHost) returns NotFound
\* exactly when the store reports zero matching rows and Internal for every
\* other read or decode failure; a canceled or timed-out context yields
\* Internal, never NotFound.
C1_SingleRowErrors ==
    (op \in SingleRowOps /\ args.stmtOk) =>
        /\ (ret.err = "NotFound") <=> ZeroRowsReported
        /\ ReadFailed => ret.err = "Internal"
        /\ args.storeErr \in ContextErrs => ret.err = "Internal"
        /\ ret.err # NoErr => ret.instance = <<>>

C1_Witness ==
    /\ op = "InstanceByHost"
    /\ args.stmtOk
    /\ args.storeErr = "context.Canceled"
    /\ Matched = <<>>
    /\ ret.err = "Internal"

C3_ScanFailureIsInternal ==
    (Scanned /\ (DecodeFailed \/ IterationFailed)) => ret.err = "Internal"

(* ---------------------------- C4 -------------------------------------- *)
\* C4: SearchInstances never returns a truncated collection: a collection
\* returned without error was iterated to the true end of the result set.
C4_NeverTruncated ==
    (op = "SearchInstances" /\ ret.err = NoErr) =>
        /\ reachedEnd
        /\ Len(ret.instances[1].Instances) = Len(Matched)

(* ---------------------------- C5 -------------------------------------- *)
\* C5: a collection query that executes successfully and matches zero rows
\* returns no error, an empty sequence and count 0; SearchInstances never
\* returns NotFound.
C5_EmptyCollection ==
    /\ (Scanned /\ Matched = <<>> /\ ~IterationFailed /\ ~args.closeFails) =>
           /\ ret.err = NoErr
           /\ ret.instances = << [Instances |-> <<>>, Count |-> 0] >>
    /\ op = "SearchInstances" => ret.err # "NotFound"

C5_Witness ==
    /\ Scanned
    /\ args.queries = << {"i9"} >>
    /\ args.fault = NoFault
    /\ ~args.closeFails
    /\ ret.err = NoErr
    /\ ret.instances[1].Count = 0

(* ---------------------------- C6 -------------------------------------- *)
\* C6: once the multi-row scan has consumed all rows the cursor is released,
\* and a failing release returns Internal and no collection although every
\* row was decoded.
C6_CloseFailure ==
    (op = "SearchInstances" /\ reachedEnd) =>
        /\ cursor = "closed"
        /\ args.closeFails => (ret.err = "Internal" /\ ret.instances = <<>>)

C6_Witness ==
    /\ op = "SearchInstances"
    /\ reachedEnd
    /\ Len(Matched) = Len(instanceTable)
    /\ args.closeFails
    /\ ret.err = "Internal"
    /\ cursor = "closed"

(* ---------------------------- C7 -------------------------------------- *)
SameOutcomeButHost(r1, r2) ==
    /\ r1.err = r2.err
    /\ Len(r1.instance) = Len(r2.instance)
    /\ r1.instance # <<>> =>
           [r1.instance[1] EXCEPT !.Host = <<>>] = [r2.instance[1] EXCEPT !.Host = <<>>]

\* C7: for every way to read the supplied host as h ":" p, InstanceByHost
\* gives the outcome InstanceByHost(h) gives against the same store: the same
\* error kind, or entities equal in every field except Host.
C7_PortIgnored ==
    op = "InstanceByHost" =>
        \A i \in 1..Len(args.host) :
            args.host[i] = ":" =>
                SameOutcomeButHost(
                    ret,
                    InstanceByHost([args EXCEPT !.host = SubSeq(args.host, 1, i - 1)]).ret)

C7_Witness ==
    /\ op = "InstanceByHost"
    /\ args.host = <<"a", ":", "b">>
    /\ args.stmtOk
    /\ ret.err = NoErr
    /\ ret.instance[1].ID = "i1"
    /\ ret.instance[1].Host = args.host

(* ---------------------------- C8 -------------------------------------- *)
\* C8: GetDefaultLanguage never reports an error: when resolving the tenant
\* of the context fails for any reason it returns language.Und, otherwise
\* exactly the default language of the resolved tenant.
C8_DefaultLanguage ==
    op = "GetDefaultLanguage" =>
        /\ ret.err = NoErr
        /\ ret.lang =
              (IF ~args.stmtOk \/ args.storeErr # NoErr \/ Matched = <<>>
               THEN Und
               ELSE Make(Matched[1].default_language))

C8_Witness ==
    /\ op = "GetDefaultLanguage"
    /\ args.stmtOk
    /\ args.ctxID = "i1"
    /\ args.storeErr = "context.DeadlineExceeded"
    /\ ret.lang = Und

(* ---------------------------- C9 -------------------------------------- *)
\* C9: the multi-row scan maps each row to the entity the single-row scan
\* produces for that row, default language included; only Host may differ.
C9_SameMapping ==
    (op = "SearchInstances" /\ ret.err = NoErr) =>
        \A i \in 1..Len(ret.instances[1].Instances) :
            LET single == prepareInstanceQuery(<<>>, NoErr, << Matched[i] >>).instance[1]
            IN [ret.instances[1].Instances[i] EXCEPT !.Host = single.Host] = single

(* ---------------------------- C10 ------------------------------------- *)
\* C10: every cursor SearchInstances opened is released when the call
\* returns, on every exit path.
C10_CursorReleased ==
    op = "SearchInstances" => cursor # "open"
====
